---- MODULE Spec2Model ----
(***************************************************************************)
(* Model of the live voice session of the "Immortal" application:          *)
(*   - class LiveSession (src/services/geminiService.ts), one record per   *)
(*     constructed instance;                                               *)
(*   - the App handlers that create and end sessions (src/App.tsx);        *)
(*   - the browser and the transport SDK as the environment that resolves  *)
(*     promises and fires callbacks (getUserMedia, AudioContext, the       *)
(*     WebSocket behind ai.live.connect, decodeAudioData).                 *)
(* Times are integers (ticks of the output AudioContext clock); visualizer *)
(* intensities and sample magnitudes are in tenths (5 stands for 0.5).     *)
(***************************************************************************)
EXTENDS Integers, Sequences, FiniteSets, TLC

\* ---------------------------------------------------------------- bounds
MaxSessions == 2
MaxChunks == 2
MaxDur == 2
MaxClock == 2
MaxFrames == 2
MaxProfiles == 2
MaxAnalyses == 1
MaxSends == 2

Sessions == 1..MaxSessions
Durations == 1..MaxDur

\* ------------------------------------------------------ program constants
SpeakingPulse == 5
Sensitivity == 5

\* a frame whose every sample has magnitude 1 has mean absolute amplitude 1.0
FullScale == 10

\* mean absolute amplitude of a captured frame, in tenths: silent, full scale
Levels == {0, FullScale}

\* the visualizer declares its intensity as 0 to 1
MaxIntensity == 10

NoSession == 0

\* activeProfileId = null
NoProfile == 0

\* enum AppView
Views ==
  {"HOME", "CREATE_PROFILE", "PROFILE_DASHBOARD", "PROFILE_CHAT",
   "PROFILE_CALL", "ABOUT", "SETTINGS"}

\* localStorage.getItem returns null: nothing was ever saved
NoData == [present |-> FALSE, text |-> <<>>]

VARIABLES
  API_KEY,              \* whether process.env.API_KEY is non-empty
  sessions,             \* LiveSession instances: fields and position in connect()
  web,                  \* per instance: browser / SDK objects it created
  obs,                  \* per instance: what its callbacks and sinks received
  liveSessionRef,       \* App: liveSessionRef.current (NoSession = null)
  liveStatus,           \* App: liveStatus state
  visualizerIntensity,  \* App: visualizerIntensity state (tenths)
  unmounted,            \* App: the component has been unmounted
  ui                    \* App: view, profiles, activeProfileId; localStorage

vars == <<API_KEY, sessions, web, obs, liveSessionRef, liveStatus,
          visualizerIntensity, unmounted, ui>>

\* --------------------------------------------------------------- helpers
Max(a, b) == IF a >= b THEN a ELSE b

Range(q) == {q[i] : i \in 1..Len(q)}

Reverse(q) == [i \in 1..Len(q) |-> q[Len(q) + 1 - i]]

\* ------------------------------------------------------- initial objects
\* Record of the latest call source.start(when), made at clock value callAt
\* for chunk id (its position among the audio messages).  prevId is the chunk
\* of the call before it; afterIntr: an interruption was handled between the
\* two calls; staleAhead: the cursor that interruption discarded was later
\* than callAt.
NoStart ==
  [ id |-> 0, when |-> 0, callAt |-> 0, dur |-> 0, stopped |-> FALSE,
    afterIntr |-> FALSE, staleAhead |-> FALSE, prevId |-> 0 ]

\* Inbound audio chunks.  While decoding a chunk has the duration of its
\* payload and the interrupted flag of its message, and cut tells whether an
\* interruption has been handled since its decode began; once its source is
\* started only the clock value at which it plays to its end matters.
Decoding(dur, intr) ==
  [st |-> "decoding", dur |-> dur, intr |-> intr, endAt |-> 0, cut |-> FALSE]
Playing(endAt) ==
  [st |-> "playing", dur |-> 0, intr |-> FALSE, endAt |-> endAt, cut |-> FALSE]
Stopped ==
  [st |-> "stopped", dur |-> 0, intr |-> FALSE, endAt |-> 0, cut |-> FALSE]
\* no source exists any more (decode failed, or 'ended' was dispatched)
Gone ==
  [st |-> "gone", dur |-> 0, intr |-> FALSE, endAt |-> 0, cut |-> FALSE]

\* Field initialisers of class LiveSession; pc = "none" means the instance
\* has not been constructed yet.
NewLiveSession ==
  [ pc                 |-> "none",
    inputAudioContext  |-> "null",
    outputAudioContext |-> "null",
    inputNode          |-> FALSE,
    outputNode         |-> FALSE,
    sessionPromise     |-> "null",
    nextStartTime      |-> 0,
    sources            |-> {},
    isConnected        |-> FALSE ]

\* Environment objects of one instance.
NewWeb ==
  [ transport       |-> "none",   \* the WebSocket behind ai.live.connect
    stream          |-> FALSE,    \* a live microphone MediaStream is held
    scriptProcessor |-> FALSE,    \* capture node created and connected
    currentTime     |-> 0,        \* outputAudioContext.currentTime
    chunks          |-> <<>>,     \* one record per inbound audio message
    thenQueue       |-> <<>> ]    \* sends waiting on sessionPromise

NewObs ==
  [ statusLog   |-> <<>>,   \* calls of onStatusChange, in order
    last        |-> NoStart,\* the latest call of source.start
    sentFrames  |-> <<>>,   \* calls of session.sendRealtimeInput, in order
    nCaptured   |-> 0,      \* onaudioprocess events delivered
    level       |-> 0,      \* amplitude of the latest frame not dropped
    dropped     |-> 0,      \* of these, returned at line 225
    disconnects |-> 0,      \* disconnect() calls
    openSeen    |-> FALSE,  \* onopen fired
    errorSeen   |-> FALSE,  \* onerror fired after onopen
    closeSeen   |-> FALSE,  \* onclose fired
    gumFailed   |-> FALSE,  \* getUserMedia rejected
    intrSince   |-> FALSE,  \* an interruption was handled since the last start
    staleCursor |-> 0,      \* nextStartTime held just before that interruption
    arrMax      |-> 0 ]     \* latest clock sampled at line 253 since the last start

\* A profile as created by handleCreateProfile (lines 84-94) from a
\* template's traits; ids stand for the values of crypto.randomUUID().
NewProfile(id, traits) ==
  [id |-> id, personalityTraits |-> traits, keyMemories |-> <<>>]

\* JSON.stringify / JSON.parse of a profile list (storageUtils.ts, lines 8, 17)
Stringify(list) == [present |-> TRUE, text |-> list]
Parse(data) == data.text

\* loadProfiles, storageUtils.ts lines 5-13
LoadProfiles(storage) == IF storage.present THEN Parse(storage) ELSE <<>>

\* traits a new profile starts with: no template chosen, or a template's
TemplateTraits == {<<>>, <<"Wise">>}

\* what localStorage holds when the app is opened: nothing (first visit), or
\* the one profile saved by an earlier visit
StoredAtStart == {NoData, Stringify(<<NewProfile(1, <<>>)>>)}

\* return {} : the fields are undefined and nothing is pushed
EmptyUpdate == [personalityTraits |-> <<>>, keyMemories |-> <<>>]

\* generateContent answered without text
NoText == [hasText |-> FALSE, personalityTraits |-> <<>>, keyMemories |-> <<>>]

\* MemoryUpload: no processMemories is running.  While one runs, profile is
\* the profile prop it closed over, logs and video tell what it analyses.
NoUpload ==
  [busy |-> FALSE, profile |-> NewProfile(NoProfile, <<>>),
   logs |-> FALSE, video |-> FALSE]

\* ChatInterface after mounting (lines 11-26): inputText tells whether the
\* input holds non-blank text, sends lists the handleSend calls that are
\* suspended at an await, messages the roles of the messages shown
NewChat ==
  [inputText |-> FALSE, isTyping |-> FALSE, sends |-> <<>>,
   messages |-> <<>>, nSends |-> 0]

\* App state once the mount effects have run (lines 46-48, 61-70)
NewUi(storage) ==
  [ view            |-> "HOME",
    profiles        |-> LoadProfiles(storage),
    activeProfileId |-> NoProfile,
    storage         |-> storage,
    nextId          |-> Len(LoadProfiles(storage)) + 1, \* next fresh id
    lastSaveOk      |-> TRUE,   \* the latest localStorage.setItem returned
    upload          |-> NoUpload,     \* MemoryUpload: processMemories in flight
    nAnalyses       |-> 0,            \* processMemories calls so far
    chat            |-> NewChat ]     \* ChatInterface, mounted in the chat view

Init ==
  /\ API_KEY \in BOOLEAN
  /\ \E storage \in StoredAtStart : ui = NewUi(storage)
  /\ sessions = [s \in Sessions |-> NewLiveSession]
  /\ web = [s \in Sessions |-> NewWeb]
  /\ obs = [s \in Sessions |-> NewObs]
  /\ liveSessionRef = NoSession
  /\ liveStatus = "Ready"
  /\ visualizerIntensity = 0
  /\ unmounted = FALSE

\* ------------------------------------------------------ state as a value
\* Handlers are written as functions from state to state so that a handler
\* that calls another (startLiveSession -> disconnect -> connect) composes.
Cur ==
  [ ls |-> sessions, web |-> web, obs |-> obs,
    liveStatus |-> liveStatus, viz |-> visualizerIntensity ]

Commit(W) ==
  /\ sessions' = W.ls
  /\ web' = W.web
  /\ obs' = W.obs
  /\ liveStatus' = W.liveStatus
  /\ visualizerIntensity' = W.viz

\* (status) => setLiveStatus(status), the callback every instance is given
OnStatusChange(W, s, by, status) ==
  [W EXCEPT !.obs[s].statusLog = Append(@, [by |-> by, status |-> status]),
            !.liveStatus = status]

\* (intensity) => setVisualizerIntensity(intensity)
OnVisualizerData(W, s, v) == [W EXCEPT !.viz = v]

\* ------------------------------------------------- LiveSession.connect()
Closed(c) == IF c = "null" THEN "null" ELSE "closed"

\* catch (err) of connect(): lines 212-215
ConnectCatch(W, s) ==
  OnStatusChange([W EXCEPT !.ls[s].pc = "done"], s, "connect",
                 "Connection Failed. Check Permissions.")

\* lines 163-182: gain nodes, instructions, then await getUserMedia
ConnectAfterResume(W, s) ==
  [W EXCEPT !.ls[s].inputNode = TRUE,
            !.ls[s].outputNode = TRUE,
            !.ls[s].pc = "gum"]

\* lines 159-161: await inputAudioContext.resume() when it is suspended
ConnectResumeInput(W, s) ==
  IF W.ls[s].inputAudioContext = "suspended"
  THEN [W EXCEPT !.ls[s].pc = "resumeIn"]
  ELSE ConnectAfterResume(W, s)

\* lines 145-158: connect() up to its first suspension.  fail names the
\* AudioContext constructor that throws (or "none"); outState and inState are
\* the states the browser creates the two contexts in.
ConnectStart(W, s, fail, outState, inState) ==
  IF ~API_KEY
  THEN OnStatusChange([W EXCEPT !.ls[s].pc = "done"], s, "connect",
                      "Error: No API Key")
  ELSE IF fail = "input"
  THEN ConnectCatch(W, s)
  ELSE IF fail = "output"
  THEN ConnectCatch([W EXCEPT !.ls[s].inputAudioContext = inState], s)
  ELSE LET W1 == [W EXCEPT !.ls[s].inputAudioContext = inState,
                           !.ls[s].outputAudioContext = outState]
       IN  IF outState = "suspended"
           THEN [W1 EXCEPT !.ls[s].pc = "resumeOut"]
           ELSE ConnectResumeInput(W1, s)

\* ---------------------------------------------- LiveSession.disconnect()
\* lines 289-294
Disconnect(W, s) ==
  OnStatusChange(
    [W EXCEPT !.ls[s].isConnected = FALSE,
              !.ls[s].inputAudioContext = Closed(@),
              !.ls[s].outputAudioContext = Closed(@),
              !.obs[s].disconnects = @ + 1],
    s, "disconnect", "Disconnected")

\* ------------------------------------------------------------ App.tsx
Constructed(s) == sessions[s].pc # "none"

ProfileIds(list) == {list[i].id : i \in DOMAIN list}

\* line 72: activeProfile is non-null
HasActiveProfile == ui.activeProfileId \in ProfileIds(ui.profiles)

\* Sidebar onSelectProfile, line 561: a click on an entry of the list
SelectProfile(id) ==
  /\ ~unmounted
  /\ id \in ProfileIds(ui.profiles)
  /\ ui' = [ui EXCEPT !.activeProfileId = id, !.view = "PROFILE_DASHBOARD",
                      !.chat = NewChat]
  /\ UNCHANGED <<API_KEY, sessions, web, obs, liveSessionRef, liveStatus,
                 visualizerIntensity, unmounted>>

\* dashboard button "Voice Call", line 334
OpenCall ==
  /\ ~unmounted
  /\ ui.view = "PROFILE_DASHBOARD"
  /\ HasActiveProfile
  /\ ui' = [ui EXCEPT !.view = "PROFILE_CALL"]
  /\ UNCHANGED <<API_KEY, sessions, web, obs, liveSessionRef, liveStatus,
                 visualizerIntensity, unmounted>>

\* the sidebar links and the cards of the home view (Sidebar lines 41-120,
\* App lines 175, 183, 562): onNavigate is only ever given these views
NavigableViews == {"HOME", "CREATE_PROFILE", "SETTINGS", "ABOUT"}

Navigate(v) ==
  /\ ~unmounted
  /\ v \in NavigableViews
  /\ ui' = [ui EXCEPT !.view = v, !.chat = NewChat]
  /\ UNCHANGED <<API_KEY, sessions, web, obs, liveSessionRef, liveStatus,
                 visualizerIntensity, unmounted>>

\* dashboard button "Chat" (line 327); ChatInterface mounts with fresh state,
\* and every way out of the chat view unmounts it
OpenChat ==
  /\ ~unmounted
  /\ ui.view = "PROFILE_DASHBOARD"
  /\ HasActiveProfile
  /\ ui' = [ui EXCEPT !.view = "PROFILE_CHAT", !.chat = NewChat]
  /\ UNCHANGED <<API_KEY, sessions, web, obs, liveSessionRef, liveStatus,
                 visualizerIntensity, unmounted>>

\* back button of the chat view (line 524)
CloseChat ==
  /\ ~unmounted
  /\ ui.view = "PROFILE_CHAT"
  /\ HasActiveProfile
  /\ ui' = [ui EXCEPT !.view = "PROFILE_DASHBOARD", !.chat = NewChat]
  /\ UNCHANGED <<API_KEY, sessions, web, obs, liveSessionRef, liveStatus,
                 visualizerIntensity, unmounted>>

\* saveProfiles, storageUtils.ts lines 15-22; ok: setItem returns (it throws
\* when the quota is exceeded, which the catch reports with an alert)
SaveProfiles(u, list, ok) ==
  IF ok
  THEN [u EXCEPT !.storage = Stringify(list), !.lastSaveOk = TRUE]
  ELSE [u EXCEPT !.lastSaveOk = FALSE]

\* the effect on [profiles], lines 66-70, run after a change of the list
SaveEffect(u, ok) ==
  IF Len(u.profiles) > 0 THEN SaveProfiles(u, u.profiles, ok) ELSE u

\* handleCreateProfile, lines 82-104, and the save effect it triggers
HandleCreateProfileOp(u, traits, ok) ==
  SaveEffect([u EXCEPT !.profiles = Append(@, NewProfile(u.nextId, traits)),
                       !.activeProfileId = u.nextId,
                       !.nextId = @ + 1,
                       !.view = "PROFILE_DASHBOARD"], ok)

HandleCreateProfile ==
  /\ ~unmounted
  /\ ui.view = "CREATE_PROFILE"
  /\ ui.nextId <= MaxProfiles
  /\ \E traits \in TemplateTraits, ok \in BOOLEAN :
       ui' = HandleCreateProfileOp(ui, traits, ok)
  /\ UNCHANGED <<API_KEY, sessions, web, obs, liveSessionRef, liveStatus,
                 visualizerIntensity, unmounted>>

Without(list, id) == SelectSeq(list, LAMBDA p : p.id # id)

\* a deleteProfile that leaves the saving to the effect on [profiles]
DeleteProfileSavesByEffect(u, id, ok1, ok2) ==
  LET u1 == [u EXCEPT !.profiles = Without(u.profiles, id)]
      u2 == IF u.activeProfileId = id
            THEN [u1 EXCEPT !.activeProfileId = NoProfile, !.view = "HOME"]
            ELSE u1
  IN  SaveEffect(u2, ok2)

\* a deleteProfile without lines 126-129
DeleteProfileKeepsActive(u, id, ok1, ok2) ==
  LET newProfiles == Without(u.profiles, id)
  IN  SaveEffect(SaveProfiles([u EXCEPT !.profiles = newProfiles],
                              newProfiles, ok1), ok2)

\* deleteProfile once confirmed, lines 121-131, and the save effect it
\* triggers; ok1, ok2: the two setItem calls return
DeleteProfileOp(u, id, ok1, ok2) ==
  LET newProfiles == Without(u.profiles, id)
      u1 == SaveProfiles([u EXCEPT !.profiles = newProfiles], newProfiles, ok1)
      u2 == IF u.activeProfileId = id
            THEN [u1 EXCEPT !.activeProfileId = NoProfile, !.view = "HOME"]
            ELSE u1
  IN  SaveEffect(u2, ok2)

\* the delete button of the dashboard (line 299) acts on the active profile
DeleteProfile ==
  /\ ~unmounted
  /\ ui.view = "PROFILE_DASHBOARD"
  /\ HasActiveProfile
  /\ \E ok1 \in BOOLEAN, ok2 \in BOOLEAN :
       ui' = DeleteProfileOp(ui, ui.activeProfileId, ok1, ok2)
  /\ UNCHANGED <<API_KEY, sessions, web, obs, liveSessionRef, liveStatus,
                 visualizerIntensity, unmounted>>

\* ------------------------------------------------------ ChatInterface
RemoveAt(q, i) == SubSeq(q, 1, i - 1) \o SubSeq(q, i + 1, Len(q))

ChatUnchanged ==
  UNCHANGED <<API_KEY, sessions, web, obs, liveSessionRef, liveStatus,
              visualizerIntensity, unmounted>>

\* onChange of the input (line 132): the text becomes blank or non-blank
TypeText ==
  /\ ~unmounted
  /\ ui.view = "PROFILE_CHAT"
  /\ ui' = [ui EXCEPT !.chat.inputText = ~@]
  /\ ChatUnchanged

\* handleSend up to its await (lines 32-46); the chat session exists since
\* the mount effect (line 19)
HandleSendOp(c) ==
  IF ~c.inputText THEN c
  ELSE [c EXCEPT !.messages = Append(@, "user"),
                 !.inputText = FALSE,
                 !.isTyping = TRUE,
                 !.sends = Append(@, "sending"),
                 !.nSends = @ + 1]

\* the send button, disabled with blank input or while isTyping (138-139)
SendByButton ==
  /\ ~unmounted
  /\ ui.view = "PROFILE_CHAT"
  /\ ui.chat.inputText /\ ~ui.chat.isTyping
  /\ ui.chat.nSends < MaxSends
  /\ ui' = [ui EXCEPT !.chat = HandleSendOp(@)]
  /\ ChatUnchanged

\* Enter in the input (line 133); with blank input handleSend returns at
\* line 33 and nothing changes
SendByEnter ==
  /\ ~unmounted
  /\ ui.view = "PROFILE_CHAT"
  /\ ui.chat.inputText
  /\ ui.chat.nSends < MaxSends
  /\ ui' = [ui EXCEPT !.chat = HandleSendOp(@)]
  /\ ChatUnchanged

\* sendMessageStream resolved: the placeholder message is added (46-57)
StreamOpen(i) ==
  /\ ui.view = "PROFILE_CHAT"
  /\ i \in DOMAIN ui.chat.sends
  /\ ui.chat.sends[i] = "sending"
  /\ ui' = [ui EXCEPT !.chat.sends[i] = "streaming",
                      !.chat.messages = Append(@, "model")]
  /\ ChatUnchanged

\* the stream is exhausted, then finally (lines 59-67, 76-78)
StreamEnd(i) ==
  /\ ui.view = "PROFILE_CHAT"
  /\ i \in DOMAIN ui.chat.sends
  /\ ui.chat.sends[i] = "streaming"
  /\ ui' = [ui EXCEPT !.chat.sends = RemoveAt(@, i),
                      !.chat.isTyping = FALSE]
  /\ ChatUnchanged

\* sendMessageStream or the stream throws: catch, then finally (68-78)
SendFail(i) ==
  /\ ui.view = "PROFILE_CHAT"
  /\ i \in DOMAIN ui.chat.sends
  /\ ui' = [ui EXCEPT !.chat.sends = RemoveAt(@, i),
                      !.chat.messages = Append(@, "error"),
                      !.chat.isTyping = FALSE]
  /\ ChatUnchanged

\* --------------------------------------------------- memory ingestion
\* What generateContent answers: no text, or JSON with the extracted items
Responses ==
  { NoText,
    [hasText |-> TRUE, personalityTraits |-> <<>>, keyMemories |-> <<>>],
    [hasText |-> TRUE, personalityTraits |-> <<"Kind">>,
     keyMemories |-> <<"Trip">>] }

\* analyzeTextContent, geminiService.ts lines 45-53
AnalyzeTextContent(response, currentProfile) ==
  IF response.hasText
  THEN [personalityTraits |->
          currentProfile.personalityTraits \o response.personalityTraits,
        keyMemories |-> currentProfile.keyMemories \o response.keyMemories]
  ELSE EmptyUpdate

\* analyzeVideoFrames, geminiService.ts lines 94-101
AnalyzeVideoFrames(response, currentProfile) ==
  IF response.hasText
  THEN [personalityTraits |->
          currentProfile.personalityTraits \o response.personalityTraits,
        keyMemories |-> currentProfile.keyMemories \o response.keyMemories]
  ELSE EmptyUpdate

\* the items the model extracted from one response
Extracted(used, response) ==
  IF used /\ response.hasText
  THEN [personalityTraits |-> response.personalityTraits,
        keyMemories |-> response.keyMemories]
  ELSE EmptyUpdate

\* processMemories, lines 74-103: the profile passed to onProfileUpdate
ProcessedProfile(profile, logs, video, textResponse, videoResponse) ==
  LET t == IF logs THEN AnalyzeTextContent(textResponse, profile)
           ELSE EmptyUpdate
      v == IF video THEN AnalyzeVideoFrames(videoResponse, profile)
           ELSE EmptyUpdate
      newTraits   == t.personalityTraits \o v.personalityTraits
      newMemories == t.keyMemories \o v.keyMemories
  IN  [profile EXCEPT !.personalityTraits = @ \o newTraits,
                      !.keyMemories = @ \o newMemories]

\* updateActiveProfile, App.tsx lines 106-108
UpdateActiveProfile(u, updated) ==
  [u EXCEPT !.profiles =
     [i \in DOMAIN @ |-> IF @[i].id = updated.id THEN updated ELSE @[i]]]

\* processMemories up to its first await (lines 70-80): the button of the
\* dashboard's MemoryUpload, with text, a video or both selected.  One
\* analysis at a time is explored.
ProcessMemoriesStart ==
  /\ ~unmounted
  /\ ui.view = "PROFILE_DASHBOARD"
  /\ HasActiveProfile
  /\ ~ui.upload.busy
  /\ ui.nAnalyses < MaxAnalyses
  /\ \E logs \in BOOLEAN, video \in BOOLEAN :
       /\ logs \/ video
       /\ LET profile == CHOOSE p \in Range(ui.profiles) :
                            p.id = ui.activeProfileId
          IN  ui' = [ui EXCEPT !.upload = [busy |-> TRUE, profile |-> profile,
                                           logs |-> logs, video |-> video],
                               !.nAnalyses = @ + 1]
  /\ UNCHANGED <<API_KEY, sessions, web, obs, liveSessionRef, liveStatus,
                 visualizerIntensity, unmounted>>

\* processMemories after its awaits (lines 80-110), and the save effect the
\* update triggers; fails: an analysis call rejected, the catch alerts
ProcessMemoriesDoneOp(u, textResponse, videoResponse, fails, ok) ==
  LET up      == u.upload
      updated == ProcessedProfile(up.profile, up.logs, up.video,
                                  textResponse, videoResponse)
      u1      == [u EXCEPT !.upload = NoUpload]
  IN  IF fails THEN u1
      ELSE SaveEffect(UpdateActiveProfile(u1, updated), ok)

ProcessMemoriesDone ==
  /\ ui.upload.busy
  /\ \E textResponse \in Responses, videoResponse \in Responses,
        fails \in BOOLEAN, ok \in BOOLEAN :
       \* a request that is not made has no answer; a failure saves nothing
       /\ ~ui.upload.logs => textResponse = NoText
       /\ ~ui.upload.video => videoResponse = NoText
       /\ fails => ok /\ textResponse = NoText /\ videoResponse = NoText
       /\ ui' = ProcessMemoriesDoneOp(ui, textResponse, videoResponse,
                                     fails, ok)
  /\ UNCHANGED <<API_KEY, sessions, web, obs, liveSessionRef, liveStatus,
                 visualizerIntensity, unmounted>>

\* startLiveSession, lines 133-143, up to the first suspension of connect().
\* The button that calls it is rendered by the call view while
\* liveStatus # 'Connected'.
StartLiveSession ==
  /\ ~unmounted
  /\ ui.view = "PROFILE_CALL"
  /\ HasActiveProfile
  /\ liveStatus # "Connected"
  /\ \E n \in Sessions :
       /\ ~Constructed(n)
       /\ \A m \in Sessions : m < n => Constructed(m)
       /\ \E fail \in {"none", "input", "output"},
             outState \in {"running", "suspended"},
             inState \in {"running", "suspended"} :
            LET W0 == IF liveSessionRef # NoSession
                      THEN Disconnect(Cur, liveSessionRef) ELSE Cur
            IN  Commit(ConnectStart(W0, n, fail, outState, inState))
       /\ liveSessionRef' = n
  /\ UNCHANGED <<API_KEY, unmounted, ui>>

\* endLiveSession, lines 145-152
EndLiveSessionOp(W) ==
  IF liveSessionRef # NoSession
  THEN [Disconnect(W, liveSessionRef) EXCEPT !.viz = 0,
                                             !.liveStatus = "Disconnected"]
  ELSE W

\* the hang-up button of the call view (line 508), rendered while
\* liveStatus = 'Connected'
EndLiveSession ==
  /\ ~unmounted
  /\ ui.view = "PROFILE_CALL"
  /\ HasActiveProfile
  /\ liveStatus = "Connected"
  /\ liveSessionRef # NoSession
  /\ Commit(EndLiveSessionOp(Cur))
  /\ liveSessionRef' = NoSession
  /\ UNCHANGED <<API_KEY, unmounted, ui>>

\* the close button of the call view (line 463): endLiveSession(), then
\* setView(PROFILE_DASHBOARD)
CloseCall ==
  /\ ~unmounted
  /\ ui.view = "PROFILE_CALL"
  /\ HasActiveProfile
  /\ Commit(EndLiveSessionOp(Cur))
  /\ liveSessionRef' = NoSession
  /\ ui' = [ui EXCEPT !.view = "PROFILE_DASHBOARD"]
  /\ UNCHANGED <<API_KEY, unmounted>>

\* cleanup of the mount effect, lines 154-158
Unmount ==
  /\ ~unmounted
  /\ unmounted' = TRUE
  /\ Commit(IF liveSessionRef # NoSession
            THEN Disconnect(Cur, liveSessionRef) ELSE Cur)
  /\ UNCHANGED <<API_KEY, liveSessionRef, ui>>

\* ------------------------------------- connect(): resumption after awaits
ResumeResolveOp(W, s) ==
  IF W.ls[s].pc = "resumeOut"
  THEN ConnectResumeInput([W EXCEPT !.ls[s].outputAudioContext = "running"], s)
  ELSE ConnectAfterResume([W EXCEPT !.ls[s].inputAudioContext = "running"], s)

\* await ...resume() resolves (lines 157, 160)
ResumeResolve(s) ==
  /\ \/ sessions[s].pc = "resumeOut" /\ sessions[s].outputAudioContext = "suspended"
     \/ sessions[s].pc = "resumeIn" /\ sessions[s].inputAudioContext = "suspended"
  /\ Commit(ResumeResolveOp(Cur, s))
  /\ UNCHANGED <<API_KEY, liveSessionRef, unmounted, ui>>

\* await ...resume() rejects; a closed context always rejects
ResumeReject(s) ==
  /\ sessions[s].pc \in {"resumeOut", "resumeIn"}
  /\ Commit(ConnectCatch(Cur, s))
  /\ UNCHANGED <<API_KEY, liveSessionRef, unmounted, ui>>

\* line 182 resolves, then lines 184-211: ai.live.connect is called
GetUserMediaResolveOp(W, s) ==
  [W EXCEPT !.web[s].stream = TRUE,
            !.ls[s].sessionPromise = "pending",
            !.web[s].transport = "connecting",
            !.ls[s].pc = "done"]

GetUserMediaResolve(s) ==
  /\ sessions[s].pc = "gum"
  /\ Commit(GetUserMediaResolveOp(Cur, s))
  /\ UNCHANGED <<API_KEY, liveSessionRef, unmounted, ui>>

\* a catch block that went on to open the transport
GetUserMediaRejectConnects(W, s) ==
  ConnectCatch(GetUserMediaResolveOp([W EXCEPT !.obs[s].gumFailed = TRUE], s), s)

\* line 182 rejects (permission denied, no device): control goes to the catch
GetUserMediaRejectOp(W, s) ==
  ConnectCatch([W EXCEPT !.obs[s].gumFailed = TRUE], s)

GetUserMediaReject(s) ==
  /\ sessions[s].pc = "gum"
  /\ Commit(GetUserMediaRejectOp(Cur, s))
  /\ UNCHANGED <<API_KEY, liveSessionRef, unmounted, ui>>

\* ------------------------------------------------ transport callbacks
\* setupAudioInput, lines 218-244.  throws: createMediaStreamSource raises on
\* a closed context (browsers differ), which ends the onopen callback.
SetupAudioInput(W, s, throws) ==
  IF W.ls[s].inputAudioContext = "null" \/ W.ls[s].sessionPromise = "null"
  THEN W
  ELSE IF W.ls[s].inputAudioContext = "closed" /\ throws
  THEN W
  ELSE [W EXCEPT !.web[s].scriptProcessor = TRUE]

\* onopen, lines 187-191
OnOpenOp(W, s, throws) ==
  LET W1 == [W EXCEPT !.ls[s].isConnected = TRUE,
                      !.web[s].transport = "open",
                      !.obs[s].openSeen = TRUE]
  IN  SetupAudioInput(OnStatusChange(W1, s, "onopen", "Connected"), s, throws)

OnOpen(s) ==
  /\ web[s].transport = "connecting"
  /\ \E throws \in BOOLEAN : Commit(OnOpenOp(Cur, s, throws))
  /\ UNCHANGED <<API_KEY, liveSessionRef, unmounted, ui>>

\* onclose without line 196
OnCloseKeepsConnected(W, s) ==
  OnStatusChange([W EXCEPT !.web[s].transport = "closed",
                           !.obs[s].closeSeen = TRUE],
                 s, "onclose", "Disconnected")

\* onclose, lines 195-198
OnCloseOp(W, s) ==
  OnStatusChange([W EXCEPT !.ls[s].isConnected = FALSE,
                           !.web[s].transport = "closed",
                           !.obs[s].closeSeen = TRUE],
                 s, "onclose", "Disconnected")

\* the socket closes: after a failed handshake, an error, or a normal end
OnClose(s) ==
  /\ web[s].transport \in {"connecting", "open", "error"}
  /\ Commit(OnCloseOp(Cur, s))
  /\ UNCHANGED <<API_KEY, liveSessionRef, unmounted, ui>>

\* onerror, lines 199-202
OnErrorOp(W, s) ==
  OnStatusChange([W EXCEPT !.web[s].transport = "error",
                           !.obs[s].errorSeen = (W.web[s].transport = "open")],
                 s, "onerror", "Error")

\* the socket fails; it delivers nothing more until its close event
OnError(s) ==
  /\ web[s].transport \in {"connecting", "open"}
  /\ Commit(OnErrorOp(Cur, s))
  /\ UNCHANGED <<API_KEY, liveSessionRef, unmounted, ui>>

\* the promise returned by ai.live.connect resolves once the socket has
\* opened; the callbacks registered by line 237 then run in order
\* reactions to the promise run last-registered first
SessionResolveReversed(W, s) ==
  [W EXCEPT !.ls[s].sessionPromise = "resolved",
            !.obs[s].sentFrames = @ \o Reverse(W.web[s].thenQueue),
            !.web[s].thenQueue = <<>>]

SessionResolveOp(W, s) ==
  [W EXCEPT !.ls[s].sessionPromise = "resolved",
            !.obs[s].sentFrames = @ \o W.web[s].thenQueue,
            !.web[s].thenQueue = <<>>]

SessionResolve(s) ==
  /\ sessions[s].sessionPromise = "pending"
  /\ obs[s].openSeen
  /\ Commit(SessionResolveOp(Cur, s))
  /\ UNCHANGED <<API_KEY, liveSessionRef, unmounted, ui>>

\* the promise returned by ai.live.connect (line 184) rejects before a socket
\* was opened; connect() has returned and nothing handles the rejection, and
\* the callbacks queued by line 237 are dropped with it
SessionRejectOp(W, s) ==
  [W EXCEPT !.ls[s].sessionPromise = "rejected",
            !.web[s].transport = "closed",
            !.web[s].thenQueue = <<>>]

SessionReject(s) ==
  /\ sessions[s].sessionPromise = "pending"
  /\ web[s].transport = "connecting"
  /\ Commit(SessionRejectOp(Cur, s))
  /\ UNCHANGED <<API_KEY, liveSessionRef, unmounted, ui>>

\* ---------------------------------------------------------- capture
\* scriptProcessor.onaudioprocess, lines 224-240.  level is the mean absolute
\* amplitude of the frame, in tenths.
OutboundIntensity(level) == level * Sensitivity

OnAudioProcessOp(W, s, level) ==
  LET W0 == [W EXCEPT !.obs[s].nCaptured = @ + 1]
      f  == [n |-> W.obs[s].nCaptured + 1,
             early |-> W.ls[s].sessionPromise # "resolved",
             afterError |-> W.obs[s].errorSeen,
             afterClose |-> W.obs[s].closeSeen]
  IN  IF ~W.ls[s].isConnected
      THEN [W0 EXCEPT !.obs[s].dropped = @ + 1]
      ELSE LET W1 == OnVisualizerData([W0 EXCEPT !.obs[s].level = level], s,
                                      OutboundIntensity(level))
           IN  IF W.ls[s].sessionPromise = "resolved"
               THEN [W1 EXCEPT !.obs[s].sentFrames = Append(@, f)]
               ELSE [W1 EXCEPT !.web[s].thenQueue = Append(@, f)]

OnAudioProcess(s) ==
  /\ web[s].scriptProcessor
  /\ sessions[s].inputAudioContext = "running"
  /\ obs[s].nCaptured < MaxFrames
  /\ \E level \in Levels : Commit(OnAudioProcessOp(Cur, s, level))
  /\ UNCHANGED <<API_KEY, liveSessionRef, unmounted, ui>>

\* --------------------------------------------------------- playback
\* source.start(when) called at clock value callAt begins playing at the
\* later of the two (Web Audio starts a source scheduled in the past at once)
ActualStart(when, callAt) == Max(when, callAt)
ActualEnd(when, callAt, dur) == ActualStart(when, callAt) + dur

\* line 253 without Math.max
CursorSetToClock(nst, now) == now

\* line 253
CursorOnArrival(nst, now) == Max(nst, now)

\* line 274 with = in place of +=
CursorSetToDuration(nst, dur) == dur

\* line 274
CursorAfterStart(nst, dur) == nst + dur

\* the interrupted branch without line 285
CursorKept(nst) == nst

\* line 285
CursorAfterInterrupt(nst) == 0

\* interrupted branch, lines 281-286
InterruptOp(W, s) ==
  [W EXCEPT !.web[s].chunks =
                [i \in DOMAIN @ |->
                   IF i \in W.ls[s].sources THEN Stopped
                   ELSE IF @[i].st = "decoding" THEN [@[i] EXCEPT !.cut = TRUE]
                   ELSE @[i]],
            !.obs[s].last.stopped = @ \/ W.obs[s].last.id \in W.ls[s].sources,
            !.ls[s].sources = {},
            !.ls[s].nextStartTime = CursorAfterInterrupt(@),
            !.obs[s].intrSince = TRUE,
            !.obs[s].staleCursor = W.ls[s].nextStartTime]

\* handleMessage up to its await, lines 246-256; audio is the duration of the
\* chunk the message carries (0: no inlineData), intr its interrupted flag
HandleMessageOp(W, s, audio, intr) ==
  IF audio # 0 /\ W.ls[s].outputAudioContext # "null" /\ W.ls[s].outputNode
  THEN LET W1  == OnVisualizerData(W, s, SpeakingPulse)
           now == W.web[s].currentTime
       IN  [W1 EXCEPT !.ls[s].nextStartTime = CursorOnArrival(@, now),
                      !.obs[s].arrMax = Max(@, now),
                      !.web[s].chunks =
                          Append(@, Decoding(audio, intr))]
  ELSE IF intr THEN InterruptOp(W, s) ELSE W

\* onmessage, lines 192-194
OnMessage(s) ==
  /\ web[s].transport = "open"
  /\ Len(web[s].chunks) < MaxChunks
  /\ \E audio \in {0} \cup Durations, intr \in BOOLEAN :
       /\ audio # 0 \/ intr
       /\ Commit(HandleMessageOp(Cur, s, audio, intr))
  /\ UNCHANGED <<API_KEY, liveSessionRef, unmounted, ui>>

\* lines 263-275: the decoded buffer is scheduled
ScheduleOp(W, s, i) ==
  LET c   == W.web[s].chunks[i]
      nst == W.ls[s].nextStartTime
      now == W.web[s].currentTime
      p   == W.obs[s].last
  IN  [W EXCEPT !.web[s].chunks[i] = Playing(ActualEnd(nst, now, c.dur)),
                !.ls[s].nextStartTime = CursorAfterStart(nst, c.dur),
                !.ls[s].sources = @ \cup {i},
                !.obs[s].last =
                    [id |-> i, when |-> nst, callAt |-> now, dur |-> c.dur,
                     stopped |-> FALSE,
                     afterIntr |-> W.obs[s].intrSince,
                     staleAhead |-> W.obs[s].intrSince
                                    /\ W.obs[s].staleCursor > now,
                     prevId |-> p.id],
                !.obs[s].intrSince = FALSE,
                !.obs[s].staleCursor = 0,
                !.obs[s].arrMax = 0]

\* a catch block that gave up on the audio already queued
DecodeFailedClearsQueue(W, s, i) ==
  [W EXCEPT !.web[s].chunks[i] = Gone,
            !.ls[s].sources = {},
            !.ls[s].nextStartTime = 0]

\* catch (e), lines 276-278: the error is logged and the chunk has no source
DecodeFailedOp(W, s, i) ==
  [W EXCEPT !.web[s].chunks[i] = Gone]

\* handleMessage from the await on, lines 256-286.  ok: the payload decodes;
\* throws: createBufferSource raises on a closed context (browsers differ).
DecodeDoneOp(W, s, i, ok, throws) ==
  LET fails == ~ok \/ (W.ls[s].outputAudioContext = "closed" /\ throws)
      W1 == IF fails
            THEN DecodeFailedOp(W, s, i)
            ELSE ScheduleOp(W, s, i)
  IN  IF W.web[s].chunks[i].intr THEN InterruptOp(W1, s) ELSE W1

\* decodeAudioData (utils/audioUtils): decoding is asynchronous and its
\* latency varies per chunk, so any decode in flight may be the next to finish
DecodeReady(W, s, i) ==
  /\ i \in DOMAIN W.web[s].chunks
  /\ W.web[s].chunks[i].st = "decoding"

DecodeDone(s) ==
  /\ \E i \in 1..MaxChunks, ok \in BOOLEAN, throws \in BOOLEAN :
       /\ DecodeReady(Cur, s, i)
       /\ Commit(DecodeDoneOp(Cur, s, i, ok, throws))
  /\ UNCHANGED <<API_KEY, liveSessionRef, unmounted, ui>>

\* the 'ended' listener, lines 268-271
EndedOp(W, s, i) ==
  OnVisualizerData([W EXCEPT !.ls[s].sources = @ \ {i},
                             !.web[s].chunks[i] = Gone], s, 0)

\* the browser dispatches 'ended' once a source has played to its end or has
\* been stopped; a closed context dispatches nothing
SourceEnded(s) ==
  /\ sessions[s].outputAudioContext = "running"
  /\ \E i \in DOMAIN web[s].chunks :
       LET c == web[s].chunks[i]
       IN  /\ \/ c.st = "stopped"
              \/ c.st = "playing" /\ web[s].currentTime >= c.endAt
           /\ Commit(EndedOp(Cur, s, i))
  /\ UNCHANGED <<API_KEY, liveSessionRef, unmounted, ui>>

\* outputAudioContext.currentTime advances while the context runs
Tick(s) ==
  /\ sessions[s].outputAudioContext = "running"
  /\ web[s].currentTime < MaxClock
  /\ web' = [web EXCEPT ![s].currentTime = @ + 1]
  /\ UNCHANGED <<API_KEY, sessions, obs, liveSessionRef, liveStatus,
                 visualizerIntensity, unmounted, ui>>

\* ------------------------------------------------------ specifications
\* Session lifecycle: every handler of the App and of LiveSession except the
\* inbound-audio path.
\* the user goes from the home view to the call view of the first profile
SelectFirstProfile == ui.view = "HOME" /\ SelectProfile(1)

Next ==
  \/ SelectFirstProfile
  \/ OpenCall
  \/ StartLiveSession
  \/ EndLiveSession
  \/ CloseCall
  \/ Unmount
  \/ \E s \in Sessions :
       \/ ResumeResolve(s)
       \/ ResumeReject(s)
       \/ GetUserMediaResolve(s)
       \/ GetUserMediaReject(s)
       \/ OnOpen(s)
       \/ OnClose(s)
       \/ OnError(s)
       \/ SessionResolve(s)
       \/ SessionReject(s)
       \/ OnAudioProcess(s)

Spec == Init /\ [][Next]_vars

\* The fields of a LiveSession are private to the instance, so what concerns
\* one instance is explored on the first call the app places.
StartFirstSession == liveSessionRef = NoSession /\ ~Constructed(1) /\ StartLiveSession

\* One call, from its start to its end: lifecycle and capture of one instance.
NextCall ==
  \/ SelectFirstProfile
  \/ OpenCall
  \/ StartFirstSession
  \/ EndLiveSession
  \/ CloseCall
  \/ Unmount
  \/ ResumeResolve(1)
  \/ ResumeReject(1)
  \/ GetUserMediaResolve(1)
  \/ GetUserMediaReject(1)
  \/ OnOpen(1)
  \/ OnClose(1)
  \/ OnError(1)
  \/ SessionResolve(1)
  \/ SessionReject(1)
  \/ OnAudioProcess(1)

SpecCall == Init /\ [][NextCall]_vars

\* One call while it stays connected: the inbound-audio path.
NextPlayback ==
  \/ SelectFirstProfile
  \/ OpenCall
  \/ StartFirstSession
  \/ ResumeResolve(1)
  \/ ResumeReject(1)
  \/ GetUserMediaResolve(1)
  \/ GetUserMediaReject(1)
  \/ OnOpen(1)
  \/ OnMessage(1)
  \/ DecodeDone(1)
  \/ SourceEnded(1)
  \/ Tick(1)

SpecPlayback == Init /\ [][NextPlayback]_vars

\* One call with inbound audio, from its start to its end: the inbound-audio
\* path together with hang-up, unmount, and the socket closing or failing.
NextTeardown ==
  \/ NextPlayback
  \/ EndLiveSession
  \/ CloseCall
  \/ Unmount
  \/ OnClose(1)
  \/ OnError(1)

SpecTeardown == Init /\ [][NextTeardown]_vars

\* Navigation and profile management, with no call placed.
NextProfiles ==
  \/ \E v \in Views : Navigate(v)
  \/ \E id \in 1..MaxProfiles : SelectProfile(id)
  \/ OpenChat
  \/ CloseChat
  \/ OpenCall
  \/ CloseCall
  \/ HandleCreateProfile
  \/ DeleteProfile

SpecProfiles == Init /\ [][NextProfiles]_vars

\* Everything that changes the profile list: creation, memory ingestion and
\* deletion, with the navigation these need.
NextStorage ==
  \/ Navigate("CREATE_PROFILE")
  \/ \E id \in 1..MaxProfiles : SelectProfile(id)
  \/ HandleCreateProfile
  \/ DeleteProfile
  \/ ProcessMemoriesStart
  \/ ProcessMemoriesDone

\* process.env.API_KEY is read by connect() only (line 149)
InitStorage == Init /\ API_KEY

SpecStorage == InitStorage /\ [][NextStorage]_vars

\* Navigation while one call is placed.
NextApp ==
  \/ \E v \in Views : Navigate(v)
  \/ \E id \in 1..MaxProfiles : SelectProfile(id)
  \/ OpenCall
  \/ CloseCall
  \/ StartFirstSession
  \/ EndLiveSession
  \/ GetUserMediaResolve(1)
  \/ OnOpen(1)
  \/ OnClose(1)

SpecApp == Init /\ [][NextApp]_vars

\* ============================================================ properties
StatusCount(s, status) ==
  Cardinality({i \in DOMAIN obs[s].statusLog : obs[s].statusLog[i].status = status})

\* a chunk's source was started in this step
StartStep(s) == obs'[s].last.id # obs[s].last.id

\* C1 as claimed: for consecutive calls of source.start with no interruption
\* handled in between, the start time of the later chunk is the start time of
\* the earlier chunk plus the earlier chunk's duration.
C1_GaplessAlways ==
  [][\A s \in Sessions :
       (StartStep(s) /\ obs[s].last.id # 0 /\ ~obs'[s].last.afterIntr)
         => obs'[s].last.when = obs[s].last.when + obs[s].last.dur]_vars

\* C1 amended: ... the start time of the later chunk is the later of (the
\* earlier chunk's start time plus its duration) and the latest output-clock
\* value read at line 253 by a message handled since the earlier start; so
\* the two are gapless unless the clock had already passed the cursor.
C1_GaplessUnlessLate ==
  [][\A s \in Sessions :
       (StartStep(s) /\ obs[s].last.id # 0 /\ ~obs'[s].last.afterIntr)
         => obs'[s].last.when =
              Max(obs[s].last.when + obs[s].last.dur, obs[s].arrMax)]_vars

\* two chunks were started one after the other with no interruption between
C1_Witness ==
  \E s \in Sessions :
    /\ obs[s].last.prevId # 0
    /\ ~obs[s].last.afterIntr
    /\ obs[s].last.when > 0

\* C2: a chunk's actual start is never earlier than the actual end of the
\* chunk started before it, unless an interruption stopped that earlier chunk.
C2_NoOverlap ==
  [][\A s \in Sessions :
       (StartStep(s) /\ obs[s].last.id # 0 /\ ~obs[s].last.stopped)
         => ActualStart(obs'[s].last.when, obs'[s].last.callAt)
              >= ActualEnd(obs[s].last.when, obs[s].last.callAt, obs[s].last.dur)]_vars

\* C3: chunks begin playback in the order their messages were delivered: a
\* chunk delivered later never begins playing before one delivered earlier.
C3_DeliveryOrder ==
  [][\A s \in Sessions :
       (StartStep(s) /\ obs[s].last.id > obs'[s].last.id)
         => ~(ActualStart(obs[s].last.when, obs[s].last.callAt)
                < ActualStart(obs'[s].last.when, obs'[s].last.callAt))]_vars

\* C4: once an interruption has been handled, every source that was active
\* is stopped and the active set is empty until the next start; and the first
\* chunk started after the interruption begins playing at the output clock's
\* current time (its start time is not later than the clock), not at the
\* cursor held before the interruption.
C4_InterruptResets ==
  \A s \in Sessions :
    /\ obs[s].intrSince =>
         /\ sessions[s].sources = {}
         /\ \A i \in DOMAIN web[s].chunks : web[s].chunks[i].st # "playing"
    /\ obs[s].last.afterIntr => obs[s].last.when <= obs[s].last.callAt

\* a chunk was started after an interruption that discarded a cursor lying
\* ahead of the clock (so sources were playing when it was handled)
C4_Witness ==
  \E s \in Sessions : obs[s].last.afterIntr /\ obs[s].last.staleAhead

\* C5: over the disconnect() calls made on a session, its status callback
\* receives "Disconnected" exactly once.
C5_DisconnectedOnce ==
  \A s \in Sessions :
    obs[s].disconnects >= 1 => StatusCount(s, "Disconnected") = 1

\* the session has reported "Disconnected" or a failure status
Terminal(s) ==
  \E i \in DOMAIN obs[s].statusLog : obs[s].statusLog[i].status # "Connected"

\* C6: once a session has reported "Disconnected" or a failure status, it
\* never reports "Connected" and isConnected never becomes true again.
C6_TerminalStays ==
  [][\A s \in Sessions :
       Terminal(s) =>
         /\ sessions'[s].isConnected => sessions[s].isConnected
         /\ StatusCount(s, "Connected")' = StatusCount(s, "Connected")]_vars

\* C7: at no time do two LiveSession instances hold a microphone stream.
C7_OneMicrophone ==
  Cardinality({s \in Sessions : web[s].stream}) <= 1

\* C8: at most one LiveSession is live (isConnected with a capture pipeline
\* set up) at a time.
C8_OneLiveSession ==
  Cardinality({s \in Sessions :
                 sessions[s].isConnected /\ web[s].scriptProcessor}) <= 1

Forwarded(s) == Range(obs[s].sentFrames) \cup Range(web[s].thenQueue)

\* C9: after onerror has fired mid-session, the status callback has received
\* a failure status, isConnected is false, and no frame captured afterwards
\* is forwarded to the transport.
C9_ErrorIsTerminal ==
  \A s \in Sessions :
    obs[s].errorSeen =>
      /\ \E i \in DOMAIN obs[s].statusLog :
           obs[s].statusLog[i] = [by |-> "onerror", status |-> "Error"]
      /\ ~sessions[s].isConnected
      /\ \A f \in Forwarded(s) : ~f.afterError

\* C10: after onclose has fired, the status callback has received
\* "Disconnected" from it, not an error status, and no frame captured
\* afterwards is forwarded to the transport.
C10_CloseStopsCapture ==
  \A s \in Sessions :
    obs[s].closeSeen =>
      /\ \E i \in DOMAIN obs[s].statusLog : obs[s].statusLog[i].by = "onclose"
      /\ \A i \in DOMAIN obs[s].statusLog :
           obs[s].statusLog[i].by = "onclose"
             => obs[s].statusLog[i].status = "Disconnected"
      /\ \A f \in Forwarded(s) : ~f.afterClose

\* onclose fired on a session that had forwarded a frame, and a frame
\* captured after it was dropped
C10_Witness ==
  \E s \in Sessions :
    /\ obs[s].closeSeen
    /\ obs[s].sentFrames # <<>>
    /\ obs[s].dropped >= 1

\* connect() of session s has failed: it returned without calling
\* ai.live.connect, or the handshake failed (socket error before onopen, or
\* rejection of the session promise)
ConnectFailed(s) ==
  \/ sessions[s].pc = "done" /\ sessions[s].sessionPromise = "null"
  \/ sessions[s].sessionPromise = "rejected"
  \/ web[s].transport = "error" /\ ~obs[s].openSeen

FailureStatuses ==
  {"Error: No API Key", "Connection Failed. Check Permissions.", "Error"}

\* C11: whenever connect() has failed (missing API key, AudioContext creation
\* or resume failure, getUserMedia failure, rejection of the handshake
\* promise), the status callback has received a failure status and the
\* session has never reported "Connected".
C11_FailureReported ==
  \A s \in Sessions :
    ConnectFailed(s) =>
      /\ \E i \in DOMAIN obs[s].statusLog :
           obs[s].statusLog[i].status \in FailureStatuses
      /\ StatusCount(s, "Connected") = 0

\* C12: if getUserMedia has failed, connect() has reported a failure status,
\* the session never reports "Connected", and ai.live.connect was never
\* called for the session (no session promise, no socket).
C12_NoTransportAfterMicFailure ==
  \A s \in Sessions :
    obs[s].gumFailed =>
      /\ \E i \in DOMAIN obs[s].statusLog :
           obs[s].statusLog[i] =
             [by |-> "connect", status |-> "Connection Failed. Check Permissions."]
      /\ StatusCount(s, "Connected") = 0
      /\ sessions[s].sessionPromise = "null"
      /\ web[s].transport = "none"
      /\ ~web[s].stream

\* getUserMedia was rejected after both audio contexts had been created
C12_Witness ==
  \E s \in Sessions :
    /\ obs[s].gumFailed
    /\ sessions[s].pc = "done"
    /\ sessions[s].outputNode

\* C13: a session that reports "Connected" has reported "Connecting" before.
C13_ConnectingFirst ==
  \A s \in Sessions :
    \A i \in DOMAIN obs[s].statusLog :
      obs[s].statusLog[i].status = "Connected" =>
        \E j \in 1..(i - 1) : obs[s].statusLog[j].status = "Connecting"

\* the decode of chunk i of session s fails in this step
DecodeFailStep(s, i) ==
  /\ i \in DOMAIN web[s].chunks
  /\ web[s].chunks[i].st = "decoding"
  /\ web'[s].chunks[i].st = "gone"

\* C14: when the decode of a chunk fails (its message carrying no
\* interruption), only that chunk is dropped: the status callback is not
\* invoked, the active source set and the cursor are unchanged, the session
\* stays connected, and every other chunk is left as it was, so that chunks
\* of later messages are scheduled and played as if it had not arrived.
C14_DecodeFailureIsLocal ==
  [][\A s \in Sessions : \A i \in 1..MaxChunks :
       (DecodeFailStep(s, i) /\ ~web[s].chunks[i].intr) =>
         /\ obs'[s].statusLog = obs[s].statusLog
         /\ liveStatus' = liveStatus
         /\ sessions'[s] = sessions[s]
         /\ \A j \in DOMAIN web[s].chunks : j # i =>
              web'[s].chunks[j] = web[s].chunks[j]]_vars

\* the first chunk was dropped without ever being started (no source.start
\* preceded the start of the second), and the chunk of the later message is
\* playing on the connected session
C14_Witness ==
  \E s \in Sessions :
    /\ Len(web[s].chunks) = 2
    /\ web[s].chunks[1].st = "gone"
    /\ web[s].chunks[2].st = "playing"
    /\ obs[s].last.id = 2
    /\ obs[s].last.prevId = 0
    /\ 2 \in sessions[s].sources
    /\ sessions[s].isConnected

\* C15: once disconnect() has been called on a session, the session holds no
\* resources: no live microphone stream, no capture node on a running
\* context, no socket that is connecting or open, and both audio contexts
\* (when created) are closed.
C15_DisconnectReleasesAll ==
  \A s \in Sessions :
    obs[s].disconnects >= 1 =>
      /\ ~web[s].stream
      /\ ~(web[s].scriptProcessor /\ sessions[s].inputAudioContext = "running")
      /\ web[s].transport \notin {"connecting", "open", "error"}
      /\ sessions[s].inputAudioContext \in {"null", "closed"}
      /\ sessions[s].outputAudioContext \in {"null", "closed"}

\* C16: after disconnect() has been called on a session, no later step of
\* that session starts a playback source or adds one to the active set, sets
\* up the capture node, or (no other session existing) changes the
\* visualizer intensity from one of its callbacks.
C16_NoLateCallbacks ==
  [][\A s \in Sessions :
       (obs[s].disconnects >= 1 /\ obs'[s].disconnects = obs[s].disconnects) =>
         /\ ~StartStep(s)
         /\ sessions'[s].sources \subseteq sessions[s].sources
         /\ web'[s].scriptProcessor => web[s].scriptProcessor
         /\ ( /\ \A t \in Sessions \ {s} : ~Constructed(t)
              /\ liveSessionRef' = liveSessionRef
              /\ unmounted' = unmounted )
            => visualizerIntensity' = visualizerIntensity]_vars

\* C17: when the decode of a chunk that was in flight while an interruption
\* was handled completes on a connected session and the chunk is started, it
\* is scheduled fresh: it begins playing at the current clock value and the
\* cursor becomes the current clock value plus its duration.
C17_InFlightScheduledFresh ==
  [][\A s \in Sessions : \A i \in 1..MaxChunks :
       ( /\ StartStep(s)
         /\ obs'[s].last.id = i
         /\ web[s].chunks[i].cut
         /\ ~web[s].chunks[i].intr
         /\ sessions[s].isConnected )
       => /\ ActualStart(obs'[s].last.when, obs'[s].last.callAt)
               = web[s].currentTime
          /\ sessions'[s].nextStartTime
               = web[s].currentTime + obs'[s].last.dur]_vars

\* onaudioprocess of session s processes a frame in this step (it does not
\* return at line 225)
CaptureStep(s) ==
  /\ obs'[s].nCaptured = obs[s].nCaptured + 1
  /\ obs'[s].dropped = obs[s].dropped

\* C18: the intensity reported for an outbound frame is 0 for an all-zero
\* frame, and for a full-scale frame it is strictly positive and no greater
\* than the maximum the visualizer declares.
C18_IntensityInRange ==
  [][\A s \in Sessions :
       CaptureStep(s) =>
         /\ obs'[s].level = 0 => visualizerIntensity' = 0
         /\ obs'[s].level = FullScale =>
              /\ visualizerIntensity' > 0
              /\ visualizerIntensity' <= MaxIntensity]_vars

\* C19: sendRealtimeInput is called for frames in capture order, and the
\* sends still waiting on the session promise are queued in capture order
\* behind them; this covers frames captured before the promise resolved.
C19_CaptureOrder ==
  \A s \in Sessions :
    LET q == obs[s].sentFrames \o web[s].thenQueue
    IN  \A i, j \in DOMAIN q : i < j => q[i].n < q[j].n

\* two frames captured before the session promise resolved have been sent
C19_Witness ==
  \E s \in Sessions :
    /\ Len(obs[s].sentFrames) >= 2
    /\ obs[s].sentFrames[1].early
    /\ obs[s].sentFrames[2].early

\* C20: whenever a LiveSession is not connected (before onopen, after
\* onclose, after disconnect()), its set of scheduled playback sources is
\* empty.
C20_NoSourcesUnlessConnected ==
  \A s \in Sessions :
    ~sessions[s].isConnected => sessions[s].sources = {}

\* The interrupted branch (lines 281-286) of session s runs in this step: it
\* is the only code that sets intrSince; when intrSince was already set the
\* step is the handling of an interruption-only message (the cursor or the
\* marking of the decodes in flight changes, and nothing else) or the
\* completion of the decode of a chunk whose message carried the interruption.
InterruptStep(s) ==
  /\ obs'[s].intrSince
  /\ \/ ~obs[s].intrSince
     \/ /\ sessions'[s] =
             [sessions[s] EXCEPT !.nextStartTime = sessions'[s].nextStartTime]
        /\ obs'[s] = [obs[s] EXCEPT !.staleCursor = obs'[s].staleCursor]
        /\ web'[s] = [web[s] EXCEPT !.chunks = web'[s].chunks]
        /\ <<sessions'[s], web'[s]>> # <<sessions[s], web[s]>>
        /\ Len(web'[s].chunks) = Len(web[s].chunks)
        /\ \A i \in DOMAIN web[s].chunks :
             web'[s].chunks[i].st = web[s].chunks[i].st
     \/ \E i \in DOMAIN web[s].chunks :
          /\ web[s].chunks[i].st = "decoding"
          /\ web[s].chunks[i].intr
          /\ web'[s].chunks[i].st # "decoding"

\* C21: in a step during which the session stays connected and no
\* interruption is handled (a message arriving, a decode completing, a source
\* ending, the clock advancing), nextStartTime does not decrease.
C21_CursorMonotone ==
  [][\A s \in Sessions :
       ( /\ sessions[s].isConnected
         /\ sessions'[s].isConnected
         /\ ~InterruptStep(s) )
       => sessions'[s].nextStartTime >= sessions[s].nextStartTime]_vars

\* the cursor has been advanced by a start while another decode is in
\* flight, with no interruption handled so far
C21_Witness ==
  \E s \in Sessions :
    /\ sessions[s].isConnected
    /\ obs[s].last.id # 0
    /\ ~obs[s].last.afterIntr
    /\ ~obs[s].intrSince
    /\ sessions[s].nextStartTime >= 2
    /\ \E i \in DOMAIN web[s].chunks : web[s].chunks[i].st = "decoding"

\* C22: immediately after an interruption is handled, nextStartTime equals
\* the current time of the output audio clock.
C22_InterruptSetsCursorToClock ==
  [][\A s \in Sessions :
       InterruptStep(s) =>
         sessions'[s].nextStartTime = web'[s].currentTime]_vars

\* no chunk of session s is being decoded, is in the active set, or has been
\* stopped with its 'ended' event still to come
Quiet(s) ==
  /\ sessions[s].sources = {}
  /\ \A i \in DOMAIN web[s].chunks : web[s].chunks[i].st = "gone"

\* C23: for inbound audio, the latest intensity reported is the speaking
\* pulse whenever a chunk is in the active set (so 0 is reported only once
\* the set is empty), and is 0 whenever no chunk is active or pending, which
\* includes the time after a chunk whose decode failed.
C23_InboundIntensity ==
  /\ (\E s \in Sessions : sessions[s].sources # {})
       => visualizerIntensity = SpeakingPulse
  /\ (\A s \in Sessions : Quiet(s)) => visualizerIntensity = 0

\* C24: the displayed status is "Connected" only while the session that
\* liveSessionRef refers to is connected; a callback of a session that was
\* ended or replaced does not make the display say "Connected".
C24_StatusOfCurrentSession ==
  liveStatus = "Connected" =>
    /\ liveSessionRef # NoSession
    /\ sessions[liveSessionRef].isConnected

\* C25: once disconnect() has been called on a session, sendRealtimeInput is
\* not called for it any more, not even for frames captured earlier whose
\* send waits on the session promise.
C25_NoSendAfterDisconnect ==
  [][\A s \in Sessions :
       obs[s].disconnects >= 1 => obs'[s].sentFrames = obs[s].sentFrames]_vars

\* C26: whenever the view is not PROFILE_CALL, no LiveSession is connected
\* and none holds the microphone.
C26_NoCallOutsideCallView ==
  ui.view # "PROFILE_CALL" =>
    \A s \in Sessions : ~sessions[s].isConnected /\ ~web[s].stream

C28_ActiveProfileValid ==
  /\ ui.activeProfileId = NoProfile \/ HasActiveProfile
  /\ ui.view \in {"PROFILE_DASHBOARD", "PROFILE_CHAT", "PROFILE_CALL"}
       => HasActiveProfile

\* the active profile was deleted while another profile remains
C28_Witness ==
  /\ ui.activeProfileId = NoProfile
  /\ ui.view = "HOME"
  /\ Len(ui.profiles) = 1
  /\ ui.nextId = 3

\* The chat view of one profile
NextChat ==
  \/ SelectFirstProfile
  \/ OpenChat
  \/ CloseChat
  \/ TypeText
  \/ SendByButton
  \/ SendByEnter
  \/ \E i \in 1..MaxSends : StreamOpen(i) \/ StreamEnd(i) \/ SendFail(i)

SpecChat == Init /\ [][NextChat]_vars

\* C29: processMemories keeps each existing trait and memory exactly once:
\* the profile it stores has as personalityTraits (and keyMemories) the
\* previous list followed by only the items extracted from the answers,
\* whether text, video or both were analysed.
C29_TraitsKeptOnce ==
  [][\A i \in DOMAIN ui.profiles :
       ( /\ ui.upload.busy /\ ~ui'.upload.busy
         /\ i \in DOMAIN ui'.profiles
         /\ ui'.profiles[i] # ui.profiles[i] ) =>
       \E textResponse \in Responses, videoResponse \in Responses :
         LET up == ui.upload
             t  == Extracted(up.logs, textResponse)
             v  == Extracted(up.video, videoResponse)
         IN  /\ ui'.profiles[i].personalityTraits
                  = up.profile.personalityTraits
                      \o t.personalityTraits \o v.personalityTraits
             /\ ui'.profiles[i].keyMemories
                  = up.profile.keyMemories \o t.keyMemories \o v.keyMemories
    ]_vars

\* C30: handleSend never runs concurrently with itself: at most one send is
\* in flight in the mounted ChatInterface, and isTyping is true exactly
\* while a send is in flight.
C30_OneSendAtATime ==
  ui.view = "PROFILE_CHAT" =>
    /\ Len(ui.chat.sends) <= 1
    /\ ui.chat.isTyping <=> Len(ui.chat.sends) > 0

====
